---- MODULE Spec2Model ----
(***************************************************************************)
(* A model of the rsmt2d Rust port: DataSquare (src/src/data_square.rs),   *)
(* ExtendedDataSquare (src/src/extended_data_square.rs), the Codec trait   *)
(* with its LeoRSCodec implementation (src/src/codec.rs) and DefaultTree   *)
(* (src/src/tree.rs).                                                      *)
(*                                                                         *)
(* A share is a sequence of bytes; the empty sequence is the unset share.  *)
(* Rust indices are 0-based and are kept 0-based in every operator's       *)
(* parameters; TLA+ sequences are 1-based, so cell (r, c) is stored at     *)
(* square_row[r + 1][c + 1].  Option<T> is modelled as a sequence of       *)
(* length 0 (None) or 1 (Some).  Result<T> is a record [tag, val] whose    *)
(* tag is "Ok" or the name of the Error variant.                           *)
(***************************************************************************)
EXTENDS Integers, Sequences, FiniteSets, TLC

(***************************************************************************)
(* Bounds of the model.                                                    *)
(***************************************************************************)
\* largest byte value of a one-byte input share
MaxByte == 2
\* longest input share, in bytes
MaxShareLen == 2
\* largest number of shares handed to compute / import
MaxCount == 5

(***************************************************************************)
(* Machine integers.                                                       *)
(***************************************************************************)
\* Share counts and share lengths stay far below 2^32 here, so the u32
\* conversions of DataSquare::new, compute and import (`as u32`) are exact.
\* u8 arithmetic is modulo 2^8
U8 == 256
\* DefaultTree::root returns a vector of this many bytes
RootLen == 32

(***************************************************************************)
(* Option and Result.                                                      *)
(***************************************************************************)
None == <<>>
Some(x) == <<x>>

Ok(v) == [tag |-> "Ok", val |-> v]
Err(t) == [tag |-> t, val |-> <<>>]
ErrWith(t, v) == [tag |-> t, val |-> v]

Fill(n, x) == [i \in 1..n |-> x]

RECURSIVE SumLen(_)
\* total number of bytes of a sequence of shares
SumLen(shares) ==
    IF shares = <<>> THEN 0
    ELSE Len(Head(shares)) + SumLen(Tail(shares))

(***************************************************************************)
(* tree.rs: DefaultTree.  push appends a leaf; root of no leaves is the    *)
(* empty vector, otherwise 32 copies of (total byte length as u8).         *)
(***************************************************************************)
DefaultTree_root(leaves) ==
    IF leaves = <<>> THEN <<>>
    ELSE Fill(RootLen, SumLen(leaves) % U8)

\* An accumulator of the Tree trait whose root is the list of the leaves
\* pushed, in the order they were pushed: it tells apart any two contents
\* and any two orders, as a Merkle tree does.
LeavesTree_root(leaves) == leaves

\* the constructors of accumulators a square can be built with
Trees == {"new_default_tree", "new_leaves_tree"}

\* the root of a tree made by tree_creator after the leaves were pushed
tree_root(tree_creator, leaves) ==
    IF tree_creator = "new_default_tree" THEN DefaultTree_root(leaves)
    ELSE LeavesTree_root(leaves)

(***************************************************************************)
(* codec.rs: the Codec trait.  Two implementations are inputs of the       *)
(* model: LeoRSCodec, the one of the repository (encode and decode are not *)
(* implemented and return an error), and Rep, the k = 1 erasure code (the  *)
(* parity share of one data share is a copy of it), an engine that meets   *)
(* the contract of the Codec trait and supports at most one data share.    *)
(***************************************************************************)
Codecs == {"LeoRS", "Rep"}

LeoRSCodec_max_chunks == 65536
Rep_max_chunks == 1

max_chunks(codec) ==
    IF codec = "LeoRS" THEN LeoRSCodec_max_chunks ELSE Rep_max_chunks

validate_chunk_size(codec, chunk_size) == Ok(<<>>)

Rep_encode(data) ==
    IF Len(data) = Rep_max_chunks THEN Ok(data) ELSE Err("Codec")

\* data: 2 shares, unset ones empty; fills the unset one from the known one
Rep_decode(data) ==
    IF Len(data) # 2 * Rep_max_chunks \/ \A i \in DOMAIN data : data[i] = <<>>
    THEN Err("Codec")
    ELSE IF \A i \in DOMAIN data : data[i] # <<>>
    THEN IF data[1] = data[2] THEN Ok(data) ELSE Err("Codec")
    ELSE LET known == CHOOSE i \in DOMAIN data : data[i] # <<>>
         IN  Ok(Fill(2, data[known]))

encode(codec, data) ==
    IF codec = "LeoRS" THEN Err("Codec") ELSE Rep_encode(data)

decode(codec, data) ==
    IF codec = "LeoRS" THEN Err("Codec") ELSE Rep_decode(data)

(***************************************************************************)
(* data_square.rs: DataSquare.                                             *)
(***************************************************************************)
\* (n as f64).sqrt() as u32
isqrt(n) == CHOOSE w \in 0..n : w * w <= n /\ (w + 1) * (w + 1) > n

\* the shares laid out column by column instead of row by row
DataSquare_new_transposed(data, tree_creator, share_size) ==
    IF \E i \in DOMAIN data : data[i] # <<>> /\ Len(data[i]) # share_size
    THEN Err("UnevenChunks")
    ELSE LET width == isqrt(Len(data)) IN
         IF width * width # Len(data)
         THEN Err("InvalidChunkSize")
         ELSE LET square_row ==
                      [r \in 1..width |-> [c \in 1..width |-> data[(c - 1) * width + r]]]
                  square_col ==
                      [c \in 1..width |-> [r \in 1..width |-> square_row[r][c]]]
              IN  Ok([square_row |-> square_row,
                      square_col |-> square_col,
                      width |-> width,
                      share_size |-> share_size,
                      row_roots |-> None,
                      col_roots |-> None,
                      create_tree_fn |-> tree_creator])

DataSquare_new(data, tree_creator, share_size) ==
    IF \E i \in DOMAIN data : data[i] # <<>> /\ Len(data[i]) # share_size
    THEN Err("UnevenChunks")
    ELSE LET width == isqrt(Len(data)) IN
         IF width * width # Len(data)
         THEN Err("InvalidChunkSize")
         ELSE LET square_row ==
                      [r \in 1..width |-> [c \in 1..width |-> data[(r - 1) * width + c]]]
                  square_col ==
                      [c \in 1..width |-> [r \in 1..width |-> square_row[r][c]]]
              IN  Ok([square_row |-> square_row,
                      square_col |-> square_col,
                      width |-> width,
                      share_size |-> share_size,
                      row_roots |-> None,
                      col_roots |-> None,
                      create_tree_fn |-> tree_creator])

row(ds, row_idx) ==
    IF row_idx >= ds.width THEN Err("InvalidChunkSize")
    ELSE Ok(ds.square_row[row_idx + 1])

col(ds, col_idx) ==
    IF col_idx >= ds.width THEN Err("InvalidChunkSize")
    ELSE Ok(ds.square_col[col_idx + 1])

\* v[i][j] of a Vec<Vec<_>> is within bounds; indexing panics otherwise
in_bounds(v, i, j) == i < Len(v) /\ j < Len(v[i + 1])

Panic == ErrWith("Panic", "index out of bounds")

\* the cached roots kept
reset_roots_none(ds) == ds

\* only the cached row roots dropped
reset_roots_rows_only(ds) == [ds EXCEPT !.row_roots = None]

reset_roots(ds) == [ds EXCEPT !.row_roots = None, !.col_roots = None]

\* the length of the data checked before the indices
set_cell_size_first(ds, row_idx, col_idx, data) ==
    IF data # <<>> /\ Len(data) # ds.share_size
    THEN [res |-> Err("UnevenChunks"), ds |-> ds]
    ELSE IF row_idx >= ds.width \/ col_idx >= ds.width
    THEN [res |-> Err("InvalidChunkSize"), ds |-> ds]
    ELSE LET written ==
                 [ds EXCEPT !.square_row[row_idx + 1][col_idx + 1] = data,
                            !.square_col[col_idx + 1][row_idx + 1] = data]
         IN  [res |-> Ok(<<>>), ds |-> reset_roots(written)]

\* the column-major view written at [row_idx][col_idx]
set_cell_transposed(ds, row_idx, col_idx, data) ==
    IF row_idx >= ds.width \/ col_idx >= ds.width
    THEN [res |-> Err("InvalidChunkSize"), ds |-> ds]
    ELSE IF data # <<>> /\ Len(data) # ds.share_size
    THEN [res |-> Err("UnevenChunks"), ds |-> ds]
    ELSE LET written ==
                 [ds EXCEPT !.square_row[row_idx + 1][col_idx + 1] = data,
                            !.square_col[row_idx + 1][col_idx + 1] = data]
         IN  [res |-> Ok(<<>>), ds |-> reset_roots(written)]

\* the data written to every cell of the row in the row-major view
set_cell_whole_row(ds, row_idx, col_idx, data) ==
    IF row_idx >= ds.width \/ col_idx >= ds.width
    THEN [res |-> Err("InvalidChunkSize"), ds |-> ds]
    ELSE IF data # <<>> /\ Len(data) # ds.share_size
    THEN [res |-> Err("UnevenChunks"), ds |-> ds]
    ELSE LET written ==
                 [ds EXCEPT !.square_row[row_idx + 1] =
                                [c \in 1..ds.width |-> data],
                            !.square_col[col_idx + 1][row_idx + 1] = data]
         IN  [res |-> Ok(<<>>), ds |-> reset_roots(written)]

\* the length of the data not checked
set_cell_no_size_check(ds, row_idx, col_idx, data) ==
    IF row_idx >= ds.width \/ col_idx >= ds.width
    THEN [res |-> Err("InvalidChunkSize"), ds |-> ds]
    ELSE LET written ==
                 [ds EXCEPT !.square_row[row_idx + 1][col_idx + 1] = data,
                            !.square_col[col_idx + 1][row_idx + 1] = data]
         IN  [res |-> Ok(<<>>), ds |-> reset_roots(written)]

\* returns [res |-> Result<()>, ds |-> the square after the call]
set_cell(ds, row_idx, col_idx, data) ==
    IF row_idx >= ds.width \/ col_idx >= ds.width
    THEN [res |-> Err("InvalidChunkSize"), ds |-> ds]
    ELSE IF data # <<>> /\ Len(data) # ds.share_size
    THEN [res |-> Err("UnevenChunks"), ds |-> ds]
    ELSE IF ~in_bounds(ds.square_row, row_idx, col_idx)
    THEN [res |-> Panic, ds |-> ds]
    ELSE IF ~in_bounds(ds.square_col, col_idx, row_idx)
    THEN [res |-> Panic,
          ds |-> [ds EXCEPT !.square_row[row_idx + 1][col_idx + 1] = data]]
    ELSE LET written ==
                 [ds EXCEPT !.square_row[row_idx + 1][col_idx + 1] = data,
                            !.square_col[col_idx + 1][row_idx + 1] = data]
         IN  [res |-> Ok(<<>>), ds |-> reset_roots(written)]

get_cell(ds, row_idx, col_idx) ==
    IF row_idx >= ds.width \/ col_idx >= ds.width
    THEN Err("InvalidChunkSize")
    ELSE IF ~in_bounds(ds.square_row, row_idx, col_idx) THEN Panic
    ELSE Ok(ds.square_row[row_idx + 1][col_idx + 1])

width(ds) == ds.width

\* the shares of an axis are pushed in order; the first empty one stops the loop
compute_axis_root(tree_creator, axis, shares) ==
    IF \E i \in DOMAIN shares : shares[i] = <<>>
    THEN ErrWith("IncompleteAxis", axis)
    ELSE Ok(tree_root(tree_creator, shares))

compute_row_root(ds, row_idx) ==
    LET r == row(ds, row_idx) IN
    IF r.tag # "Ok" THEN r ELSE compute_axis_root(ds.create_tree_fn, "Row", r.val)

compute_col_root(ds, col_idx) ==
    LET c == col(ds, col_idx) IN
    IF c.tag # "Ok" THEN c ELSE compute_axis_root(ds.create_tree_fn, "Col", c.val)

\* returns [res |-> Result<Vec<root>>, ds |-> the square after the call]
row_roots(ds) ==
    IF ds.row_roots # None
    THEN [res |-> Ok(ds.row_roots[1]), ds |-> ds]
    ELSE LET each == [i \in 1..ds.width |-> compute_row_root(ds, i - 1)] IN
         IF \E i \in 1..ds.width : each[i].tag # "Ok"
         THEN [res |-> each[CHOOSE i \in 1..ds.width :
                                /\ each[i].tag # "Ok"
                                /\ \A j \in 1..(i - 1) : each[j].tag = "Ok"],
               ds |-> ds]
         ELSE LET roots == [i \in 1..ds.width |-> each[i].val] IN
              [res |-> Ok(roots), ds |-> [ds EXCEPT !.row_roots = Some(roots)]]

col_roots(ds) ==
    IF ds.col_roots # None
    THEN [res |-> Ok(ds.col_roots[1]), ds |-> ds]
    ELSE LET each == [i \in 1..ds.width |-> compute_col_root(ds, i - 1)] IN
         IF \E i \in 1..ds.width : each[i].tag # "Ok"
         THEN [res |-> each[CHOOSE i \in 1..ds.width :
                                /\ each[i].tag # "Ok"
                                /\ \A j \in 1..(i - 1) : each[j].tag = "Ok"],
               ds |-> ds]
         ELSE LET roots == [i \in 1..ds.width |-> each[i].val] IN
              [res |-> Ok(roots), ds |-> [ds EXCEPT !.col_roots = Some(roots)]]

\* the shares taken from the column-major view
flattened_col_major(ds) ==
    [i \in 1..(ds.width * ds.width) |->
        ds.square_col[((i - 1) \div ds.width) + 1][((i - 1) % ds.width) + 1]]

flattened(ds) ==
    [i \in 1..(ds.width * ds.width) |->
        ds.square_row[((i - 1) \div ds.width) + 1][((i - 1) % ds.width) + 1]]

(***************************************************************************)
(* extended_data_square.rs: ExtendedDataSquare.                            *)
(***************************************************************************)
get_share_size(data) ==
    IF \A i \in DOMAIN data : data[i] = <<>> THEN 0
    ELSE Len(data[CHOOSE i \in DOMAIN data :
                      /\ data[i] # <<>>
                      /\ \A j \in 1..(i - 1) : data[j] = <<>>])

\* the check of an odd width left out
validate_eds_width_zero_only(w) ==
    IF w = 0 THEN Err("InvalidChunkSize") ELSE Ok(<<>>)

validate_eds_width(w) ==
    IF w = 0 \/ w % 2 # 0 THEN Err("InvalidChunkSize") ELSE Ok(<<>>)

compute(data, codec) ==
    IF Len(data) > max_chunks(codec) THEN Err("TooManyChunks")
    ELSE LET share_size == get_share_size(data)
             v == validate_chunk_size(codec, share_size)
         IN  IF v.tag # "Ok" THEN v
             ELSE LET ds == DataSquare_new(data, "new_default_tree", share_size) IN
                  IF ds.tag # "Ok" THEN ds
                  ELSE Ok([data_square |-> ds.val,
                           codec |-> codec,
                           original_data_width |-> width(ds.val)])

import(data, codec) ==
    IF Len(data) > 4 * max_chunks(codec) THEN Err("TooManyChunks")
    ELSE LET share_size == get_share_size(data)
             v == validate_chunk_size(codec, share_size)
         IN  IF v.tag # "Ok" THEN v
             ELSE LET ds == DataSquare_new(data, "new_default_tree", share_size) IN
                  IF ds.tag # "Ok" THEN ds
                  ELSE LET w == validate_eds_width(width(ds.val)) IN
                       IF w.tag # "Ok" THEN w
                       ELSE Ok([data_square |-> ds.val,
                                codec |-> codec,
                                original_data_width |-> width(ds.val) \div 2])

\* the two length checks joined by && instead of ||
pre_repair_sanity_check_both(e, trusted_row_roots, trusted_col_roots) ==
    IF /\ Len(trusted_row_roots) # width(e.data_square)
       /\ Len(trusted_col_roots) # width(e.data_square)
    THEN Err("InvalidChunkSize")
    ELSE Ok(<<>>)

pre_repair_sanity_check(e, trusted_row_roots, trusted_col_roots) ==
    IF \/ Len(trusted_row_roots) # width(e.data_square)
       \/ Len(trusted_col_roots) # width(e.data_square)
    THEN Err("InvalidChunkSize")
    ELSE Ok(<<>>)

\* returns [res |-> Result<()>, eds |-> the square after the call]
repair(e, trusted_row_roots, trusted_col_roots) ==
    LET pre == pre_repair_sanity_check(e, trusted_row_roots, trusted_col_roots) IN
    IF pre.tag # "Ok" THEN [res |-> pre, eds |-> e]
    ELSE [res |-> ErrWith("Codec", "repair not yet implemented"), eds |-> e]

(***************************************************************************)
(* Inputs.                                                                 *)
(***************************************************************************)
\* the unset share, every one-byte share, and the longer shares of bytes 1
Shares ==
    {<<>>} \cup {<<b>> : b \in 1..MaxByte} \cup {Fill(n, 1) : n \in 2..MaxShareLen}

DataLists == UNION {[1..n -> Shares] : n \in 0..MaxCount}

\* what DefaultTree yields for a complete axis of two shares of 1 or of 2 bytes
RootVals == {Fill(RootLen, 2), Fill(RootLen, 4)}

\* lists of trusted roots: too short, of the square's width, one too long
RootLists(e) == {Fill(n, v) : n \in 0..(width(e.data_square) + 1), v \in RootVals}

\* row / column indices: every index of the square and the first one beyond it
Indices(e) == 0..width(e.data_square)

(***************************************************************************)
(* State: the one ExtendedDataSquare the caller owns (None before a        *)
(* constructor has succeeded), the last call and what it returned.  A      *)
(* behaviour is one call of a constructor and, if it succeeded, the calls  *)
(* made on the square it returned.  call holds the arguments of the last   *)
(* call; for set_cell also whether row roots and column roots were         *)
(* memoized when it was made.                                              *)
(***************************************************************************)
VARIABLES eds, call, result

vars == <<eds, call, result>>

Init ==
    /\ eds = None
    /\ call = [op |-> "none"]
    /\ result = Ok(<<>>)

Compute(data, codec) ==
    /\ call.op = "none"
    /\ LET r == compute(data, codec) IN
       /\ eds' = IF r.tag = "Ok" THEN Some(r.val) ELSE None
       /\ result' = IF r.tag = "Ok" THEN Ok(<<>>) ELSE r
    /\ call' = [op |-> "compute", data |-> data, codec |-> codec]

Import(data, codec) ==
    /\ call.op = "none"
    /\ LET r == import(data, codec) IN
       /\ eds' = IF r.tag = "Ok" THEN Some(r.val) ELSE None
       /\ result' = IF r.tag = "Ok" THEN Ok(<<>>) ELSE r
    /\ call' = [op |-> "import", data |-> data, codec |-> codec]

SetCell(row_idx, col_idx, data) ==
    /\ eds # None
    /\ LET r == set_cell(eds[1].data_square, row_idx, col_idx, data) IN
       /\ eds' = Some([eds[1] EXCEPT !.data_square = r.ds])
       /\ result' = r.res
    /\ call' = [op |-> "set_cell", row_idx |-> row_idx, col_idx |-> col_idx,
                data |-> data,
                memoized |-> [row |-> eds[1].data_square.row_roots # None,
                              col |-> eds[1].data_square.col_roots # None]]

RowRoots ==
    /\ eds # None
    /\ LET r == row_roots(eds[1].data_square) IN
       /\ eds' = Some([eds[1] EXCEPT !.data_square = r.ds])
       /\ result' = r.res
    /\ call' = [op |-> "row_roots"]

ColRoots ==
    /\ eds # None
    /\ LET r == col_roots(eds[1].data_square) IN
       /\ eds' = Some([eds[1] EXCEPT !.data_square = r.ds])
       /\ result' = r.res
    /\ call' = [op |-> "col_roots"]

Repair(trusted_row_roots, trusted_col_roots) ==
    /\ eds # None
    /\ LET r == repair(eds[1], trusted_row_roots, trusted_col_roots) IN
       /\ eds' = Some(r.eds)
       /\ result' = r.res
    /\ call' = [op |-> "repair", row_roots |-> trusted_row_roots,
                col_roots |-> trusted_col_roots]

Next ==
    \/ /\ call.op = "none"
       /\ \E data \in DataLists, codec \in Codecs : Compute(data, codec)
    \/ /\ call.op = "none"
       /\ \E data \in DataLists, codec \in Codecs : Import(data, codec)
    \/ /\ eds # None
       /\ \E r \in Indices(eds[1]), c \in Indices(eds[1]), data \in Shares :
             SetCell(r, c, data)
    \/ RowRoots
    \/ ColRoots
    \/ /\ eds # None
       /\ \E rr \in RootLists(eds[1]), cr \in RootLists(eds[1]) : Repair(rr, cr)

Spec == Init /\ [][Next]_vars

(***************************************************************************)
(* DataSquare: a square built by DataSquare::new, held by its owner as     *)
(* [data_square |-> the square], or the square inside an                   *)
(* ExtendedDataSquare built by compute or import, and the calls made on    *)
(* it.                                                                     *)
(***************************************************************************)
\* the share_size arguments of DataSquare::new
ShareSizes == 0..MaxShareLen

New(data, tree_creator, share_size) ==
    /\ call.op = "none"
    /\ LET r == DataSquare_new(data, tree_creator, share_size) IN
       /\ eds' = IF r.tag = "Ok" THEN Some([data_square |-> r.val]) ELSE None
       /\ result' = IF r.tag = "Ok" THEN Ok(<<>>) ELSE r
    /\ call' = [op |-> "new", data |-> data, share_size |-> share_size]

GetCell(row_idx, col_idx) ==
    /\ eds # None
    /\ result' = get_cell(eds[1].data_square, row_idx, col_idx)
    /\ call' = [op |-> "get_cell", row_idx |-> row_idx, col_idx |-> col_idx]
    /\ UNCHANGED eds

Flattened ==
    /\ eds # None
    /\ result' = Ok(flattened(eds[1].data_square))
    /\ call' = [op |-> "flattened"]
    /\ UNCHANGED eds

NextDS ==
    \/ /\ call.op = "none"
       /\ \E data \in DataLists, t \in Trees, size \in ShareSizes :
             New(data, t, size)
    \/ /\ call.op = "none"
       /\ \E data \in DataLists, codec \in Codecs : Compute(data, codec)
    \/ /\ call.op = "none"
       /\ \E data \in DataLists, codec \in Codecs : Import(data, codec)
    \/ /\ eds # None
       /\ \E r \in Indices(eds[1]), c \in Indices(eds[1]), data \in Shares :
             SetCell(r, c, data)
    \/ /\ eds # None
       /\ \E r \in Indices(eds[1]), c \in Indices(eds[1]) : GetCell(r, c)
    \/ RowRoots
    \/ ColRoots
    \/ Flattened

SpecDS == Init /\ [][NextDS]_vars

(***************************************************************************)
(* set_cell step by step.  call.pc is the position of the set_cell call in *)
(* progress: "locked" after the two checks passed and data_mutex is taken, *)
(* "row_written" and "col_written" after the writes to the two views,      *)
(* "unlocked" once the guard is dropped at the end of its block, "done"    *)
(* after reset_roots returned (or after a failed check).  The other calls  *)
(* are made by the rest of the program between these steps, as far as the  *)
(* borrow of the square allows.                                            *)
(***************************************************************************)
\* no call is excluded
exclusive_borrow_never(c) == FALSE

\* set_cell takes &mut self: from its entry to its return the square is
\* borrowed exclusively and no other method can be called on it
exclusive_borrow(c) == c.op = "set_cell" /\ c.pc # "done"

SetCellBegin(row_idx, col_idx, data) ==
    /\ eds # None
    /\ ~exclusive_borrow(call)
    /\ LET ds == eds[1].data_square
           checked ==
               IF row_idx >= ds.width \/ col_idx >= ds.width
               THEN Err("InvalidChunkSize")
               ELSE IF data # <<>> /\ Len(data) # ds.share_size
               THEN Err("UnevenChunks")
               ELSE Ok(<<>>)
       IN  /\ result' = checked
           /\ call' = [op |-> "set_cell",
                       pc |-> IF checked.tag = "Ok" THEN "locked" ELSE "done",
                       row_idx |-> row_idx, col_idx |-> col_idx, data |-> data,
                       memoized |-> [row |-> ds.row_roots # None,
                                     col |-> ds.col_roots # None]]
    /\ UNCHANGED eds

WriteRow ==
    /\ call.op = "set_cell"
    /\ call.pc = "locked"
    /\ IF in_bounds(eds[1].data_square.square_row, call.row_idx, call.col_idx)
       THEN /\ eds' = Some([eds[1] EXCEPT
                       !.data_square.square_row[call.row_idx + 1][call.col_idx + 1]
                           = call.data])
            /\ call' = [call EXCEPT !.pc = "row_written"]
            /\ UNCHANGED result
       ELSE /\ result' = Panic
            /\ call' = [call EXCEPT !.pc = "done"]
            /\ UNCHANGED eds

WriteCol ==
    /\ call.op = "set_cell"
    /\ call.pc = "row_written"
    /\ IF in_bounds(eds[1].data_square.square_col, call.col_idx, call.row_idx)
       THEN /\ eds' = Some([eds[1] EXCEPT
                       !.data_square.square_col[call.col_idx + 1][call.row_idx + 1]
                           = call.data])
            /\ call' = [call EXCEPT !.pc = "col_written"]
            /\ UNCHANGED result
       ELSE /\ result' = Panic
            /\ call' = [call EXCEPT !.pc = "done"]
            /\ UNCHANGED eds

Unlock ==
    /\ call.op = "set_cell"
    /\ call.pc = "col_written"
    /\ call' = [call EXCEPT !.pc = "unlocked"]
    /\ UNCHANGED <<eds, result>>

ResetRoots ==
    /\ call.op = "set_cell"
    /\ call.pc = "unlocked"
    /\ eds' = Some([eds[1] EXCEPT !.data_square = reset_roots(@)])
    /\ result' = Ok(<<>>)
    /\ call' = [call EXCEPT !.pc = "done"]

Col(col_idx) ==
    /\ eds # None
    /\ result' = col(eds[1].data_square, col_idx)
    /\ call' = [op |-> "col", col_idx |-> col_idx]
    /\ UNCHANGED eds

NextSteps ==
    \/ /\ call.op = "none"
       /\ \E data \in DataLists, t \in Trees, size \in ShareSizes :
             New(data, t, size)
    \/ /\ eds # None
       /\ \E r \in Indices(eds[1]), c \in Indices(eds[1]), data \in Shares :
             SetCellBegin(r, c, data)
    \/ WriteRow
    \/ WriteCol
    \/ Unlock
    \/ ResetRoots
    \/ /\ eds # None
       /\ ~exclusive_borrow(call)
       /\ \E r \in Indices(eds[1]), c \in Indices(eds[1]) : GetCell(r, c)
    \/ /\ eds # None
       /\ ~exclusive_borrow(call)
       /\ \E c \in Indices(eds[1]) : Col(c)
    \/ ~exclusive_borrow(call) /\ RowRoots
    \/ ~exclusive_borrow(call) /\ ColRoots

SpecSteps == Init /\ [][NextSteps]_vars

(***************************************************************************)
(* Vocabulary of the properties.  Rows and columns are 1-based here.       *)
(***************************************************************************)
Sq(e) == e.data_square.square_row

W(e) == width(e.data_square)

ColOf(sq, c) == [r \in 1..Len(sq) |-> sq[r][c]]

Known(axis) == Cardinality({i \in DOMAIN axis : axis[i] # <<>>})

Pending(axis) == \E i \in DOMAIN axis : axis[i] = <<>>

NonEmptyShares == Shares \ {<<>>}

CompleteSquares(w) == [1..w -> [1..w -> NonEmptyShares]]

Uniform(data) ==
    \A i, j \in DOMAIN data :
        (data[i] # <<>> /\ data[j] # <<>>) => Len(data[i]) = Len(data[j])

RowRootsOf(sq) == [i \in 1..Len(sq) |-> DefaultTree_root(sq[i])]

ColRootsOf(sq) == [i \in 1..Len(sq) |-> DefaultTree_root(ColOf(sq, i))]

\* sq is a complete square of even width 2k whose right half is the parity of
\* the rows of its top-left quadrant and whose bottom half is the parity of
\* the top half of each of its columns
IsExtension(sq, codec) ==
    LET w == Len(sq)
        k == w \div 2
    IN  /\ w > 0
        /\ w % 2 = 0
        /\ \A r, c \in 1..w : sq[r][c] # <<>>
        /\ \A r \in 1..k :
              encode(codec, SubSeq(sq[r], 1, k)) = Ok(SubSeq(sq[r], k + 1, w))
        /\ \A c \in 1..w :
              encode(codec, SubSeq(ColOf(sq, c), 1, k))
                  = Ok(SubSeq(ColOf(sq, c), k + 1, w))

\* the step is a call of repair on e with root lists of the square's width
RepairCalled(e, c) ==
    /\ c.op = "repair"
    /\ Len(c.row_roots) = W(e)
    /\ Len(c.col_roots) = W(e)

(***************************************************************************)
(* C1.                                                                     *)
(***************************************************************************)
\* e is the extension O with some shares erased, every row and every column
\* keeping at least k of its 2k shares, and rr, cr are the roots of O
ErasedExtension(e, rr, cr, O) ==
    /\ IsExtension(O, e.codec)
    /\ \A r, c \in 1..W(e) : Sq(e)[r][c] \in {O[r][c], <<>>}
    /\ \A i \in 1..W(e) :
          /\ 2 * Known(Sq(e)[i]) >= W(e)
          /\ 2 * Known(ColOf(Sq(e), i)) >= W(e)
    /\ rr = RowRootsOf(O)
    /\ cr = ColRootsOf(O)

\* C1: repair of a valid extended square from which shares were erased so that
\* every row and every column keeps at least k of its 2k shares, called with
\* the original roots, returns success, and afterwards every cell is the
\* original cell and row_roots() / col_roots() are the original roots.
C1_RepairConvergence ==
    [][(eds # None /\ call'.op = "repair") =>
          \A O \in CompleteSquares(W(eds[1])) :
              ErasedExtension(eds[1], call'.row_roots, call'.col_roots, O) =>
                  /\ result'.tag = "Ok"
                  /\ Sq(eds'[1]) = O
                  /\ row_roots(eds'[1].data_square).res = Ok(call'.row_roots)
                  /\ col_roots(eds'[1].data_square).res = Ok(call'.col_roots)]_vars

(***************************************************************************)
(* C2 speaks of the calls of repair that return success.  No call of       *)
(* repair does: this is the invariant that shows it.                       *)
(***************************************************************************)
RepairNeverSucceeds == call.op = "repair" => result.tag # "Ok"

(***************************************************************************)
(* C3.                                                                     *)
(***************************************************************************)
\* the axis has unset shares and at least k known ones: repair decodes it
Decodable(e, axis) == Pending(axis) /\ Known(axis) >= e.original_data_width

\* the axis is decoded and its commitment differs from the trusted root
Mismatch(e, axis, root) ==
    /\ Decodable(e, axis)
    /\ decode(e.codec, axis).tag = "Ok"
    /\ DefaultTree_root(decode(e.codec, axis).val) # root

\* the axis is left alone, or is decoded and reproduces the trusted root
Verified(e, axis, root) ==
    Decodable(e, axis) =>
        /\ decode(e.codec, axis).tag = "Ok"
        /\ DefaultTree_root(decode(e.codec, axis).val) = root

ByzantineData(axis, index, shares) ==
    ErrWith("ByzantineData",
            [axis |-> axis, index |-> index, shares |-> Some(shares)])

\* C3: when a pending row with at least k known shares is decoded and the
\* commitment of the completed row differs from trusted_row_roots[row], repair
\* returns ByzantineData{Row, row, decoded shares} and does not commit the
\* decoded shares; the same for the first column that fails when the row
\* pass decodes nothing.
C3_ByzantineDetection ==
    [][(eds # None /\ RepairCalled(eds[1], call')) =>
          LET e == eds[1]
              w == W(eds[1])
              rr == call'.row_roots
              cr == call'.col_roots
          IN  /\ \A r \in 1..w :
                    ( /\ Mismatch(e, Sq(e)[r], rr[r])
                      /\ \A q \in 1..(r - 1) : Verified(e, Sq(e)[q], rr[q]) )
                    => /\ result' = ByzantineData("Row", r - 1,
                                                  decode(e.codec, Sq(e)[r]).val)
                       /\ Sq(eds'[1])[r] = Sq(e)[r]
              /\ \A c \in 1..w :
                    ( /\ \A r \in 1..w : ~Decodable(e, Sq(e)[r])
                      /\ Mismatch(e, ColOf(Sq(e), c), cr[c])
                      /\ \A q \in 1..(c - 1) :
                            Verified(e, ColOf(Sq(e), q), cr[q]) )
                    => /\ result' = ByzantineData("Col", c - 1,
                                        decode(e.codec, ColOf(Sq(e), c)).val)
                       /\ ColOf(Sq(eds'[1]), c) = ColOf(Sq(e), c)]_vars

(***************************************************************************)
(* C4.                                                                     *)
(***************************************************************************)
\* C4: a call of repair whose two root lists have length width() ends in
\* success, ByzantineData or UnrepairableDataSquare, and in nothing else.
C4_RepairOutcomes ==
    (eds # None /\ RepairCalled(eds[1], call)) =>
        result.tag \in {"Ok", "ByzantineData", "UnrepairableDataSquare"}

(***************************************************************************)
(* C5.                                                                     *)
(***************************************************************************)
\* C5: when some cell is unset and every pending row and every pending column
\* has fewer than k known shares (no axis can be decoded, so no pass solves
\* one and no root is compared), repair returns UnrepairableDataSquare.
C5_Unrepairable ==
    [][(eds # None /\ RepairCalled(eds[1], call')) =>
          LET e == eds[1]
              w == W(eds[1])
          IN  ( /\ w = 2 * e.original_data_width
                /\ \E r \in 1..w : Pending(Sq(e)[r])
                /\ \A i \in 1..w :
                      /\ ~Decodable(e, Sq(e)[i])
                      /\ ~Decodable(e, ColOf(Sq(e), i)) )
              => result'.tag = "UnrepairableDataSquare"]_vars

(***************************************************************************)
(* C6.                                                                     *)
(***************************************************************************)
\* C6: repair returns InvalidChunkSize whenever one of the two root lists has
\* a length other than width(), and that call changes neither a cell nor a
\* cached root of the square.
C6_RepairLengthCheck ==
    [][( /\ eds # None
         /\ call'.op = "repair"
         /\ \/ Len(call'.row_roots) # W(eds[1])
            \/ Len(call'.col_roots) # W(eds[1]) )
       => (result'.tag = "InvalidChunkSize" /\ eds' = eds)]_vars

\* repair was called on a square with cached row roots, with a row list of the
\* right length and a column list of a wrong one, and returned InvalidChunkSize
C6_Witness ==
    /\ eds # None
    /\ call.op = "repair"
    /\ eds[1].data_square.row_roots # None
    /\ Len(call.row_roots) = W(eds[1])
    /\ Len(call.col_roots) # W(eds[1])
    /\ result.tag = "InvalidChunkSize"

(***************************************************************************)
(* C7.                                                                     *)
(***************************************************************************)
\* data is k * k non-empty shares of one size, within the codec's capacity,
\* and the codec encodes each of its rows
ValidODS(data, codec, k) ==
    /\ Len(data) = k * k
    /\ Len(data) <= max_chunks(codec)
    /\ Uniform(data)
    /\ \A i \in DOMAIN data : data[i] # <<>>
    /\ \A r \in 1..k :
          encode(codec, SubSeq(data, (r - 1) * k + 1, r * k)).tag = "Ok"

\* C7: compute on k * k shares of uniform size returns a square of width 2k
\* whose top-left quadrant is the data in row-major order, whose top-right
\* quadrant is the parity of each original row and whose bottom half is the
\* parity of the top half of each column; no cell of it is unset.
C7_ComputeExtends ==
    call.op = "compute" =>
        \A k \in 0..Len(call.data) :
            ValidODS(call.data, call.codec, k) =>
                /\ result.tag = "Ok"
                /\ eds # None
                /\ W(eds[1]) = 2 * k
                /\ \A r, c \in 1..k : Sq(eds[1])[r][c] = call.data[(r - 1) * k + c]
                /\ k > 0 => IsExtension(Sq(eds[1]), call.codec)

(***************************************************************************)
(* C8.                                                                     *)
(***************************************************************************)
\* C8: every ExtendedDataSquare has an even, non-zero width() that is twice
\* its original_data_width().
C8_EvenWidth ==
    eds # None =>
        /\ W(eds[1]) # 0
        /\ W(eds[1]) % 2 = 0
        /\ W(eds[1]) = 2 * eds[1].original_data_width

(***************************************************************************)
(* C9.                                                                     *)
(***************************************************************************)
\* C9: for a valid ODS of width k, E = compute(ods) succeeds, import of
\* E.flattened() succeeds, and the imported square has the flattened data,
\* the row roots and the column roots of E.
C9_RoundTrip ==
    call.op = "compute" =>
        \A k \in 1..Len(call.data) :
            ValidODS(call.data, call.codec, k) =>
                /\ result.tag = "Ok"
                /\ eds # None
                /\ LET E == eds[1].data_square
                       imp == import(flattened(E), call.codec)
                   IN  /\ imp.tag = "Ok"
                       /\ flattened(imp.val.data_square) = flattened(E)
                       /\ row_roots(imp.val.data_square).res = row_roots(E).res
                       /\ col_roots(imp.val.data_square).res = col_roots(E).res

(***************************************************************************)
(* C10.                                                                    *)
(***************************************************************************)
\* n is the square of an even, non-zero number
EvenSquare(n) == \E w \in 1..n : w % 2 = 0 /\ w * w = n

\* what C10 says of the import of data: InvalidChunkSize unless the share
\* count is the square of an even non-zero W, and then success with
\* width() = W and original_data_width() = W / 2
ImportOutcome(data) ==
    IF EvenSquare(Len(data))
    THEN /\ result.tag = "Ok"
         /\ eds # None
         /\ W(eds[1]) * W(eds[1]) = Len(data)
         /\ 2 * eds[1].original_data_width = W(eds[1])
    ELSE /\ result.tag = "InvalidChunkSize"
         /\ eds = None

\* C10 as stated: import of a share list whose count is zero, not a perfect
\* square or the square of an odd number yields InvalidChunkSize for every
\* content of the shares; a count that is the square of an even non-zero W
\* succeeds with width() = W and original_data_width() = W / 2.
C10_ImportAnyContent == call.op = "import" => ImportOutcome(call.data)

\* C10 as amended: the same, for the share lists import validates at all: at
\* most 4 * max_chunks() shares, the non-empty ones of one length.  (Longer
\* lists yield TooManyChunks, uneven ones UnevenChunks.)
C10_ImportWidth ==
    call.op = "import" =>
        /\ (Len(call.data) <= 4 * max_chunks(call.codec) /\ Uniform(call.data))
              => ImportOutcome(call.data)
        /\ Len(call.data) > 4 * max_chunks(call.codec)
              => result.tag = "TooManyChunks"
        /\ (Len(call.data) <= 4 * max_chunks(call.codec) /\ ~Uniform(call.data))
              => result.tag = "UnevenChunks"

\* import of four shares, one of them unset, returned a square of width 2
C10_Witness ==
    /\ call.op = "import"
    /\ Len(call.data) = 4
    /\ \E i \in DOMAIN call.data : call.data[i] = <<>>
    /\ \E i \in DOMAIN call.data : call.data[i] # <<>>
    /\ result.tag = "Ok"
    /\ eds # None
    /\ W(eds[1]) = 2
    /\ eds[1].original_data_width = 1


(***************************************************************************)
(* DataSquare: construction, cell access, roots and the two views.         *)
(***************************************************************************)
\* the square the calls are made on
DS == eds[1].data_square

RowsOf(ds) == ds.square_row

\* the columns of the row-major view
ColsOf(ds) == [c \in 1..ds.width |-> ColOf(ds.square_row, c)]

\* the roots of a list of axes, computed afresh with the square's own tree
FreshRoots(ds, axes) ==
    [i \in DOMAIN axes |-> tree_root(ds.create_tree_fn, axes[i])]

IsSquareNumber(n) == \E w \in 0..n : w * w = n

\* C11: DataSquare::new answers UnevenChunks when some non-empty share has a
\* length other than share_size, otherwise InvalidChunkSize when the number
\* of shares is not a perfect square; otherwise it succeeds with the width
\* whose square is the number of shares, and get_cell(r, c) is share
\* r * width + c of the input.
C11_NewOutcome ==
    call.op = "new" =>
        LET d == call.data IN
        IF \E i \in DOMAIN d : d[i] # <<>> /\ Len(d[i]) # call.share_size
        THEN result = Err("UnevenChunks") /\ eds = None
        ELSE IF ~IsSquareNumber(Len(d))
        THEN result = Err("InvalidChunkSize") /\ eds = None
        ELSE /\ result.tag = "Ok"
             /\ eds # None
             /\ width(DS) * width(DS) = Len(d)
             /\ \A r, c \in 0..(width(DS) - 1) :
                    get_cell(DS, r, c) = Ok(d[r * width(DS) + c + 1])

\* a square of width 2 built from four shares, the second and third of which
\* differ
C11_Witness ==
    /\ call.op = "new"
    /\ result.tag = "Ok"
    /\ eds # None
    /\ width(DS) = 2
    /\ call.data[2] # call.data[3]

\* C12: get_cell and set_cell never panic; an index outside the square is
\* answered with InvalidChunkSize, whatever the length of the data, and a
\* set_cell that fails leaves both views and the cached roots as they were.
C12_CellAccessTotal ==
    [][ /\ call'.op \in {"get_cell", "set_cell"} =>
            /\ result'.tag # "Panic"
            /\ (call'.row_idx >= width(DS) \/ call'.col_idx >= width(DS)) =>
                   result' = Err("InvalidChunkSize")
        /\ (call'.op = "set_cell" /\ result'.tag # "Ok") => eds' = eds
      ]_vars

\* a set_cell outside the square, with data of the wrong length, on a square
\* whose roots were cached
C12_Witness ==
    /\ call.op = "set_cell"
    /\ call.row_idx >= width(DS)
    /\ call.data # <<>>
    /\ Len(call.data) # DS.share_size
    /\ result = Err("InvalidChunkSize")
    /\ call.memoized.row
    /\ DS.row_roots # None

\* C13: row_roots (col_roots) answers IncompleteAxis naming Row (Col) when
\* some row (column) holds an unset share, and no root is ever cached for a
\* square with an unset share on that axis kind.
C13_IncompleteAxis ==
    /\ (call.op = "row_roots" /\ \E r \in 1..width(DS) : Pending(RowsOf(DS)[r]))
           => result = ErrWith("IncompleteAxis", "Row")
    /\ (call.op = "col_roots" /\ \E c \in 1..width(DS) : Pending(ColsOf(DS)[c]))
           => result = ErrWith("IncompleteAxis", "Col")
    /\ (eds # None /\ DS.row_roots # None)
           => \A r \in 1..width(DS) : ~Pending(RowsOf(DS)[r])
    /\ (eds # None /\ DS.col_roots # None)
           => \A c \in 1..width(DS) : ~Pending(ColsOf(DS)[c])

\* row_roots refused on a square of width 2 whose first row is complete and
\* whose second row holds the only unset share
C13_Witness ==
    /\ call.op = "row_roots"
    /\ result = ErrWith("IncompleteAxis", "Row")
    /\ width(DS) = 2
    /\ ~Pending(RowsOf(DS)[1])
    /\ Known(RowsOf(DS)[2]) = 1
    /\ DS.row_roots = None

\* C14: the roots row_roots and col_roots return, and the roots the square
\* has cached, are the roots a fresh computation over the current shares
\* gives, axis by axis, in order.
C14_CacheCoherence ==
    /\ (call.op = "row_roots" /\ result.tag = "Ok")
           => result.val = FreshRoots(DS, RowsOf(DS))
    /\ (call.op = "col_roots" /\ result.tag = "Ok")
           => result.val = FreshRoots(DS, ColsOf(DS))
    /\ (eds # None /\ DS.row_roots # None)
           => DS.row_roots[1] = FreshRoots(DS, RowsOf(DS))
    /\ (eds # None /\ DS.col_roots # None)
           => DS.col_roots[1] = FreshRoots(DS, ColsOf(DS))

\* col_roots answered on a square of width 2 with a tree that tells the
\* columns apart, while the row roots are cached as well
C14_Witness ==
    /\ call.op = "col_roots"
    /\ result.tag = "Ok"
    /\ width(DS) = 2
    /\ DS.create_tree_fn = "new_leaves_tree"
    /\ result.val[1] # result.val[2]
    /\ FreshRoots(DS, RowsOf(DS)) # FreshRoots(DS, ColsOf(DS))
    /\ DS.row_roots # None

\* C15 as stated: a successful set_cell(r, c) drops the cached roots of row r
\* and column c and of no other axis, so that on a square of width two or
\* more the roots of the other rows and columns remain memoized.
C15_InvalidatesOnlyTouched ==
    (call.op = "set_cell" /\ result.tag = "Ok") =>
        /\ DS.row_roots = None \/ ~call.memoized.row
        /\ DS.col_roots = None \/ ~call.memoized.col
        /\ (call.memoized.row /\ \E i \in 0..(width(DS) - 1) : i # call.row_idx)
               => DS.row_roots # None
        /\ (call.memoized.col /\ \E i \in 0..(width(DS) - 1) : i # call.col_idx)
               => DS.col_roots # None

\* C15: a successful set_cell leaves no root cached, neither of the row and
\* column of the cell nor of any other axis.
C15_InvalidatesAll ==
    (call.op = "set_cell" /\ result.tag = "Ok") =>
        DS.row_roots = None /\ DS.col_roots = None

\* a successful set_cell on a square of width 2 whose row and column roots
\* were both cached
C15_Witness ==
    /\ call.op = "set_cell"
    /\ result.tag = "Ok"
    /\ width(DS) = 2
    /\ call.memoized.row
    /\ call.memoized.col
    /\ DS.row_roots = None

\* C17: flattened returns the width * width shares in row-major order, share
\* r * width + c being get_cell(r, c); it changes nothing of the square, and
\* the flattening of a square just built is the list it was built from.
C17_Flattened ==
    [][ /\ call'.op = "flattened" =>
            /\ eds' = eds
            /\ result'.tag = "Ok"
            /\ Len(result'.val) = width(DS) * width(DS)
            /\ \A r, c \in 0..(width(DS) - 1) :
                   Ok(result'.val[r * width(DS) + c + 1]) = get_cell(DS, r, c)
        /\ (call'.op = "new" /\ result'.tag = "Ok") =>
               flattened(eds'[1].data_square) = call'.data
      ]_vars

\* a flattening of a square of width 2 whose cells (0, 1) and (1, 0) differ
\* and whose row roots are cached
C17_Witness ==
    /\ call.op = "flattened"
    /\ width(DS) = 2
    /\ result.val[2] # result.val[3]
    /\ DS.row_roots # None

\* C18: the row-major and the column-major view hold the same square: cell
\* [r][c] of the one is cell [c][r] of the other.
C18_DualView ==
    eds # None =>
        /\ Len(DS.square_row) = width(DS)
        /\ Len(DS.square_col) = width(DS)
        /\ \A r, c \in 0..(width(DS) - 1) :
               row(DS, r).val[c + 1] = col(DS, c).val[r + 1]

\* a successful set_cell off the diagonal that leaves the square asymmetric
C18_Witness ==
    /\ call.op = "set_cell"
    /\ result.tag = "Ok"
    /\ call.row_idx # call.col_idx
    /\ call.data # <<>>
    /\ DS.square_row[call.col_idx + 1][call.row_idx + 1] # call.data

\* every share of the square is unset or share_size bytes long
UniformShareSize ==
    eds # None =>
        \A r, c \in 1..width(DS) :
            DS.square_row[r][c] # <<>> => Len(DS.square_row[r][c]) = DS.share_size

BadLength(c) == c.data # <<>> /\ Len(c.data) # DS.share_size

\* C19 as stated: every share is unset or share_size bytes long, and set_cell
\* with data that is neither empty nor share_size bytes long is answered with
\* UnevenChunks.
C19_UnevenAlways ==
    /\ UniformShareSize
    /\ (call.op = "set_cell" /\ BadLength(call)) => result = Err("UnevenChunks")

\* C19: every share is unset or share_size bytes long, and set_cell at a cell
\* of the square with data that is neither empty nor share_size bytes long is
\* answered with UnevenChunks; outside the square it is answered with
\* InvalidChunkSize.
C19_UnevenInRange ==
    /\ UniformShareSize
    /\ (call.op = "set_cell" /\ BadLength(call)) =>
           IF call.row_idx < width(DS) /\ call.col_idx < width(DS)
           THEN result = Err("UnevenChunks")
           ELSE result = Err("InvalidChunkSize")

\* set_cell at a cell of a square of width 2 refused for the length of its
\* data
C19_Witness ==
    /\ call.op = "set_cell"
    /\ BadLength(call)
    /\ call.row_idx < width(DS)
    /\ call.col_idx < width(DS)
    /\ width(DS) = 2
    /\ result = Err("UnevenChunks")


(***************************************************************************)
(* C20.                                                                    *)
(***************************************************************************)
\* the rows of e that would fail root verification when decoded
MismatchRows(e, rr) == {r \in 1..W(e) : Mismatch(e, Sq(e)[r], rr[r])}

\* the columns of e that would fail root verification when decoded
MismatchCols(e, cr) == {c \in 1..W(e) : Mismatch(e, ColOf(Sq(e), c), cr[c])}

First(S) == CHOOSE i \in S : \A j \in S : i <= j

\* C20: when several axes would fail root verification, repair returns
\* ByzantineData naming the first of them, rows in ascending index before
\* columns in ascending index, and commits nothing to the axes after it.
C20_FirstByzantineAxis ==
    [][(eds # None /\ RepairCalled(eds[1], call')) =>
          LET e == eds[1]
              MR == MismatchRows(eds[1], call'.row_roots)
              MC == MismatchCols(eds[1], call'.col_roots)
          IN  /\ (MR # {} /\ Cardinality(MR) + Cardinality(MC) >= 2) =>
                    /\ result'.tag = "ByzantineData"
                    /\ result'.val.axis = "Row"
                    /\ result'.val.index = First(MR) - 1
                    /\ \A q \in First(MR)..W(e) : Sq(eds'[1])[q] = Sq(e)[q]
              /\ ( /\ \A r \in 1..W(e) : ~Decodable(e, Sq(e)[r])
                   /\ Cardinality(MC) >= 2 ) =>
                    /\ result'.tag = "ByzantineData"
                    /\ result'.val.axis = "Col"
                    /\ result'.val.index = First(MC) - 1
                    /\ \A q \in First(MC)..W(e) :
                          ColOf(Sq(eds'[1]), q) = ColOf(Sq(e), q)]_vars


(***************************************************************************)
(* C16.                                                                    *)
(***************************************************************************)
\* the two views hold the same square and every cached root is the root of
\* the shares now stored
Coherent(ds) ==
    /\ \A r, c \in 1..ds.width : ds.square_row[r][c] = ds.square_col[c][r]
    /\ ds.row_roots # None => ds.row_roots[1] = FreshRoots(ds, ds.square_row)
    /\ ds.col_roots # None => ds.col_roots[1] = FreshRoots(ds, ds.square_col)

\* the step is a call made on the square by a reader
ReaderStep(c) == c.op \in {"get_cell", "col", "row_roots", "col_roots"}

\* C16: with set_cell taken step by step (lock, write row view, write column
\* view, unlock, reset roots), every call a reader makes finds the two views
\* equal and no cached root older than the shares stored.
C16_SetCellAtomic ==
    [][ReaderStep(call') => Coherent(eds[1].data_square)]_vars

\* a set_cell just before reset_roots: both views written, the guard dropped,
\* and the cached row roots still those of the old shares
C16_Witness ==
    /\ call.op = "set_cell"
    /\ call.pc = "unlocked"
    /\ call.memoized.row
    /\ DS.row_roots # None
    /\ DS.row_roots[1] # FreshRoots(DS, DS.square_row)


(***************************************************************************)
(* C21.                                                                    *)
(***************************************************************************)
\* C21: a successful set_cell(r, c, data) makes get_cell(r, c) return data
\* and leaves every other cell as it was in both views; no call on the
\* square changes its width or its share_size.
C21_SetCellFrame ==
    [][(eds # None /\ eds' # None) =>
          LET old == eds[1].data_square
              new == eds'[1].data_square
          IN  /\ new.width = old.width
              /\ new.share_size = old.share_size
              /\ width(new) = width(old)
              /\ (call'.op = "set_cell" /\ result'.tag = "Ok") =>
                    /\ get_cell(new, call'.row_idx, call'.col_idx)
                           = Ok(call'.data)
                    /\ \A r, c \in 0..(old.width - 1) :
                          (r # call'.row_idx \/ c # call'.col_idx) =>
                              /\ new.square_row[r + 1][c + 1]
                                     = old.square_row[r + 1][c + 1]
                              /\ new.square_col[c + 1][r + 1]
                                     = old.square_col[c + 1][r + 1]]_vars

\* a successful set_cell on a square of width 2 whose other cell of the same
\* row and other cell of the same column hold shares other than the data
C21_Witness ==
    /\ call.op = "set_cell"
    /\ result.tag = "Ok"
    /\ width(DS) = 2
    /\ call.data # <<>>
    /\ get_cell(DS, call.row_idx, call.col_idx) = Ok(call.data)
    /\ \E r, c \in 0..1 :
          /\ r # call.row_idx
          /\ c # call.col_idx
          /\ get_cell(DS, call.row_idx, c).val \notin {<<>>, call.data}
          /\ get_cell(DS, r, call.col_idx).val \notin {<<>>, call.data}

====
